---- MODULE Spec2Model ----
(***************************************************************************)
(* http-queue-manager: the queue engine (QueueManager), its workers, the   *)
(* Index Store (RedisStore) and the Durable Store (PostgresStore).         *)
(*                                                                         *)
(* Every store command (one Redis command or pipeline, one SQL statement)  *)
(* is one atomic step; every `await` between two commands is a point where *)
(* other tasks, workers and API calls interleave.                          *)
(***************************************************************************)
EXTENDS Integers, Naturals, Sequences, FiniteSets, Bags, TLC

\* ------------------------------------------------------------------ bounds
MaxIds == 2
NumWorkers == 2
MaxTime == 1
MaxAdmitted == 1
MaxOps == 1
MaxActive == 2
MaxDequeues == 2
MaxCalls == 2
MaxShutdowns == 2
MaxPauses == 2
MaxAttempt == 4
RandSteps == 8

Ids == 1..MaxIds
Workers == 1..NumWorkers
\* the ids the callers of the engine use in specification Spec
Admitted == 1..MaxAdmitted

\* ------------------------------------------------------- program constants
DefaultPriority == 50
DefaultMaxRetriesColumn == 3
PromotedScore == 50
ScoreBase == 100

\* configuration of the engine under analysis (QueueManagerConfig.retry)
ConfigMaxRetries == 2
RetryOn == {408, 429, 500, 502, 503, 504}
\* one tick of the model clock stands for the retry delay and for the 5 s
\* re-schedule delay of a request that got no slot
RetryDelayTicks == 1
SlotRetryTicks == 1

\* ------------------------------------------------------------------ inputs
NoTime == -1
NoMax == -1
NoScore == -1
Priorities == {DefaultPriority}
MaxRetriesInputs == {NoMax, 0}
ScheduledForInputs == {NoTime, MaxTime}
Statuses == {200, 404, 503}
TransportErrors == {"timeout", "other"}
HandlerErrors == {"handler"}

VARIABLES
  rows,         \* requests table: id -> row (status "none": no row)
  attemptLog,   \* request_attempts: id -> bag of attempt_number
  queue,        \* queue:pending   : id -> score or NoScore
  scheduled,    \* queue:scheduled : id -> due time or NoTime
  processing,   \* queue:processing: set of ids
  dead,         \* queue:dead      : set of ids
  snapshot,     \* request:{id}    : id -> serialized request or absent
  inflight,     \* Worker.processing: worker -> set of ids
  totalActive,  \* BackpressureController.totalActive
  activeRequests, \* BackpressureController.activeRequests.get(host): the
                \* requests of the model all go to one host
  task,         \* processRequest tasks: worker -> id -> task record
  pn,           \* processNext call in progress, per worker
  pr,           \* promoteScheduledRequests call in progress, per worker
  op,           \* engine API call in progress
  opsLeft,      \* operator calls (cancel, retry-dead, cleanup) still allowed
  dequeued,     \* number of requests dequeued so far
  now,          \* clock
  arrival,      \* history: the members of queue:pending, first inserted first
  running,      \* Worker.running: the workers that are started
  shuttingDown, \* QueueManager.shuttingDown
  connected,    \* the stores whose connections are open
  shutdownCall, \* QueueManager.shutdown: calls made, call in progress, result
  pauseCall,    \* QueueManager.pause / resume: calls made, call in progress,
                \* and whether pause has returned with no resume since
  probe,        \* a call of a pure function of the library: its arguments
                \* and, once it has returned or thrown, its result
  breaker,      \* circuit:{host}: the circuit-breaker hash of the host
  gate,         \* circuit-breaker calls of the tasks: worker -> id -> the
                \* hash the call has read and the last answer of isAllowed
  probes,       \* history: the requests isAllowed has admitted in the
                \* current half-open period
  bucket,       \* ratelimit:{key}: the token buckets (global, host)
  limiter       \* RateLimiter: its configuration, the caller's clock, and
                \* the acquire call in progress or just returned

durable == <<rows, attemptLog>>
index == <<queue, scheduled, processing, dead, snapshot, arrival>>
local == <<inflight, totalActive, activeRequests, task, pn, pr>>
throttle == <<breaker, gate, probes, bucket, limiter>>
engine == <<running, shuttingDown, connected, shutdownCall, pauseCall,
           probe, throttle>>
vars == <<rows, attemptLog, queue, scheduled, processing, dead, snapshot,
          inflight, totalActive, activeRequests, task, pn, pr, op, opsLeft,
          dequeued, now,
          arrival, running, shuttingDown, connected, shutdownCall,
          pauseCall, probe, breaker, gate, probes, bucket, limiter>>

\* ----------------------------------------------------------------- helpers
\* the error column: NULL, or the message of the last error
NoError == "null"
\* new Error(`HTTP ${response.status}`).message, or the message of the error
\* thrown (statusCode 0: undefined)
errorMessage(statusCode, err) ==
  IF statusCode # 0 THEN "HTTP " \o ToString(statusCode) ELSE err

AbsentRow == [status |-> "none", attempts |-> 0, maxRetries |-> 0,
              priority |-> 0, error |-> NoError, nextRetryAt |-> NoTime,
              scheduledFor |-> NoTime]
AbsentSnapshot == [present |-> FALSE, maxRetries |-> NoMax]
IdleTask == [pc |-> "idle", att |-> 0, maxR |-> 0, status |-> 0,
             err |-> "none", will |-> FALSE, retryAt |-> NoTime,
             inCatch |-> FALSE]
IdlePn == [pc |-> "idle", id |-> 0]
IdlePr == [pc |-> "idle", due |-> {}]
IdleOp == [pc |-> "idle", ids |-> {}, prio |-> 0, maxR |-> NoMax,
           sched |-> NoTime, ret |-> "none"]
\* the call returns (or throws) ret
Returned(ret) == [IdleOp EXCEPT !.ret = ret]

HasRow(id) == rows[id].status # "none"

\* createRequest: priority defaults to 50
createRequest(prio, maxR, sched) ==
  [prio |-> prio, maxR |-> maxR, sched |-> sched]

\* INSERT INTO requests: status from scheduledFor, max_retries ?? 3
saveRequestRow(r) ==
  [status |-> IF r.sched # NoTime THEN "scheduled" ELSE "pending",
   attempts |-> 0,
   maxRetries |-> IF r.maxR = NoMax THEN DefaultMaxRetriesColumn ELSE r.maxR,
   priority |-> r.prio, error |-> NoError, nextRetryAt |-> NoTime,
   scheduledFor |-> r.sched]

\* UPDATE requests SET status = ..., <patch> WHERE id = ... (no row: no effect)
updateRequestStatus(id, status, patch) ==
  IF HasRow(id)
  THEN [rows EXCEPT ![id] =
         [f \in DOMAIN rows[id] |->
            IF f = "status" THEN status
            ELSE IF f \in DOMAIN patch THEN patch[f] ELSE rows[id][f]]]
  ELSE rows

\* ZPOPMIN: the member with the lowest score; equal scores are ordered by
\* member (lexicographically), as in a Redis sorted set
InQueue == {i \in Ids : queue[i] # NoScore}
\* ZPOPMAX in place of ZPOPMIN
zpopmaxMember ==
  CHOOSE i \in InQueue :
    \A j \in InQueue : queue[i] > queue[j] \/ (queue[i] = queue[j] /\ i >= j)
zpopminMember ==
  CHOOSE i \in InQueue :
    \A j \in InQueue : queue[i] < queue[j] \/ (queue[i] = queue[j] /\ i <= j)

\* history of ZADD queue:pending: the ids of S that are not yet members
\* are appended, lowest id first (a member that is added again keeps its
\* place)
RECURSIVE inserted(_, _)
inserted(seq, S) ==
  IF S = {} THEN seq
  ELSE LET i == CHOOSE x \in S : \A y \in S : x <= y IN
         inserted(IF \E k \in DOMAIN seq : seq[k] = i THEN seq
                  ELSE Append(seq, i), S \ {i})
\* history of ZPOPMIN / ZREM queue:pending
removed(seq, id) == SelectSeq(seq, LAMBDA x : x # id)

\* ZRANGEBYSCORE scheduled -inf now
dueRequests == {i \in Ids : scheduled[i] # NoTime /\ scheduled[i] <= now}

\* shouldRetry(statusCode, error, attempt, config); statusCode 0: undefined
\* (attempt > config.maxRetries in place of attempt >= config.maxRetries)
shouldRetryOneMore(statusCode, err, attempt, maxRetries) ==
  IF attempt > maxRetries THEN FALSE
  ELSE IF err # "none" /\ statusCode = 0 /\ err \in {"code", "timeout"} THEN TRUE
  ELSE IF statusCode = 0 THEN FALSE
  ELSE statusCode \in RetryOn
shouldRetry(statusCode, err, attempt, maxRetries) ==
  IF attempt >= maxRetries THEN FALSE
  ELSE IF err # "none" /\ statusCode = 0 /\ err \in {"code", "timeout"} THEN TRUE
  ELSE IF statusCode = 0 THEN FALSE
  ELSE statusCode \in RetryOn

\* ------------------------------------------------------------------- Init
\* the stores of the engine
Stores == {"redis", "postgres"}
NoShutdown == [calls |-> 0, pc |-> "idle", ret |-> "none"]
NoPause == [calls |-> 0, pc |-> "idle", w |-> 0, paused |-> FALSE]

\* after QueueManager.create and start, with n operator calls to come and
\* the pure-function call p under observation
InitCore(n, p) ==
  /\ rows = [i \in Ids |-> AbsentRow]
  /\ attemptLog = [i \in Ids |-> EmptyBag]
  /\ queue = [i \in Ids |-> NoScore]
  /\ scheduled = [i \in Ids |-> NoTime]
  /\ processing = {}
  /\ dead = {}
  /\ snapshot = [i \in Ids |-> AbsentSnapshot]
  /\ inflight = [w \in Workers |-> {}]
  /\ totalActive = 0
  /\ activeRequests = 0
  /\ task = [w \in Workers |-> [i \in Ids |-> IdleTask]]
  /\ pn = [w \in Workers |-> IdlePn]
  /\ pr = [w \in Workers |-> IdlePr]
  /\ op = IdleOp
  /\ opsLeft = n
  /\ dequeued = 0
  /\ now = 0
  /\ arrival = <<>>
  /\ running = Workers
  /\ shuttingDown = FALSE
  /\ connected = Stores
  /\ shutdownCall = NoShutdown
  /\ pauseCall = NoPause
  /\ probe = p

\* no circuit:{host} key and no ratelimit:{key} key exists yet
NoBreaker == [state |-> "closed", failures |-> 0, successes |-> 0,
              stateChangedAt |-> NoTime]
NoTokens == -1
NoBucket == [tokens |-> NoTokens, lastUpdate |-> NoTime]
NoBuckets == [global |-> NoBucket, host |-> NoBucket]
NoRetryAfter == -1
NoLimiter == [rate |-> 0, burst |-> 0, host |-> FALSE, clock |-> 0,
              calls |-> 0, pc |-> "idle", allowed |-> TRUE,
              retryAfter |-> NoRetryAfter, pre |-> NoBuckets]

\* no circuit-breaker call has been made by the task
NoGate == [seen |-> NoBreaker, allowed |-> TRUE, state |-> "none"]
NoGates == [w \in Workers |-> [i \in Ids |-> NoGate]]

InitState(n, p) ==
  /\ InitCore(n, p)
  /\ breaker = NoBreaker
  /\ gate = NoGates
  /\ probes = 0
  /\ bucket = NoBuckets
  /\ limiter = NoLimiter

\* no call of a pure function under observation
NoProbe == [fn |-> "none"]
InitOps(n) == InitState(n, NoProbe)

Init == InitOps(MaxOps)

\* ------------------------------------------------------------- the clock
Tick ==
  /\ now < MaxTime
  /\ now' = now + 1
  /\ UNCHANGED <<durable, index, local, op, opsLeft, dequeued, engine>>

\* ------------------------------------------------- QueueManager.enqueue(Many)
\* enqueue / enqueueMany, first await: saveRequest / saveRequestBatch.
\* A primary-key conflict rejects the call (for a batch: ROLLBACK).
\* (INSERT ... ON CONFLICT (id) DO UPDATE in place of the plain INSERT)
EnqueueSaveUpsert(S, prio, maxR, sched) ==
  /\ op.pc = "idle"
  /\ IF shuttingDown
     THEN /\ op' = Returned("ShuttingDown")
          /\ UNCHANGED rows
     ELSE /\ rows' = [i \in Ids |->
                 IF i \in S THEN saveRequestRow(createRequest(prio, maxR, sched))
                 ELSE rows[i]]
          /\ op' = [IdleOp EXCEPT !.pc = "enqueueIndex", !.ids = S,
                       !.prio = prio, !.maxR = maxR, !.sched = sched]
  /\ UNCHANGED <<attemptLog, index, local, opsLeft, dequeued, now, engine>>
EnqueueSave(S, prio, maxR, sched) ==
  /\ op.pc = "idle"
  /\ IF shuttingDown
     THEN /\ op' = Returned("ShuttingDown")
          /\ UNCHANGED rows
     ELSE IF \E i \in S : HasRow(i)
     THEN /\ op' = [Returned("Conflict") EXCEPT !.ids = S]
          /\ UNCHANGED rows
     ELSE /\ rows' = [i \in Ids |->
                 IF i \in S THEN saveRequestRow(createRequest(prio, maxR, sched))
                 ELSE rows[i]]
          /\ op' = [IdleOp EXCEPT !.pc = "enqueueIndex", !.ids = S,
                       !.prio = prio, !.maxR = maxR, !.sched = sched]
  /\ UNCHANGED <<attemptLog, index, local, opsLeft, dequeued, now, engine>>

\* second await: RedisStore.enqueue / enqueueMany (SET request:{id}, ZADD
\* queue:pending 100 - priority, PUBLISH). The snapshot written by SET is
\* read only by the dequeue of an id that ZADD has made available, so the
\* two commands are one step.
EnqueueIndex ==
  /\ op.pc = "enqueueIndex"
  /\ snapshot' = [i \in Ids |->
        IF i \in op.ids THEN [present |-> TRUE, maxRetries |-> op.maxR]
        ELSE snapshot[i]]
  /\ queue' = [i \in Ids |->
        IF i \in op.ids THEN ScoreBase - op.prio ELSE queue[i]]
  /\ arrival' = inserted(arrival, op.ids)
  /\ op' = Returned("ok")
  /\ UNCHANGED <<durable, scheduled, processing, dead, local, opsLeft,
                 dequeued, now, engine>>

\* ------------------------------------------------------ QueueManager.cancel
\* RedisStore.cancel: ZREM queue:pending, ZREM queue:scheduled in one pipeline
CancelIndex(id) ==
  /\ op.pc = "idle"
  /\ opsLeft > 0
  /\ opsLeft' = opsLeft - 1
  /\ queue' = [queue EXCEPT ![id] = NoScore]
  /\ scheduled' = [scheduled EXCEPT ![id] = NoTime]
  /\ arrival' = removed(arrival, id)
  /\ op' = IF queue[id] # NoScore \/ scheduled[id] # NoTime
           THEN [IdleOp EXCEPT !.pc = "cancelUpdate", !.ids = {id}]
           ELSE [Returned("false") EXCEPT !.ids = {id}]
  /\ UNCHANGED <<durable, processing, dead, snapshot, local, dequeued,
                 now, engine>>

\* if (cancelled) updateRequestStatus(id, 'cancelled')
CancelUpdate ==
  /\ op.pc = "cancelUpdate"
  /\ \E id \in op.ids : rows' = updateRequestStatus(id, "cancelled", <<>>)
  /\ op' = [Returned("true") EXCEPT !.ids = op.ids]
  /\ UNCHANGED <<attemptLog, index, local, opsLeft, dequeued, now, engine>>

\* -------------------------------------------- QueueManager.retryDeadRequest
\* PostgresStore.retryDeadRequest: UPDATE ... WHERE id = $1 AND status = 'dead'
RetryDeadUpdate(id) ==
  /\ op.pc = "idle"
  /\ opsLeft > 0
  /\ opsLeft' = opsLeft - 1
  /\ rows' = IF rows[id].status = "dead"
             THEN [rows EXCEPT ![id].status = "pending", ![id].attempts = 0,
                               ![id].error = NoError, ![id].nextRetryAt = NoTime]
             ELSE rows
  /\ op' = [IdleOp EXCEPT !.pc = "retryDeadGet", !.ids = {id}]
  /\ UNCHANGED <<attemptLog, index, local, dequeued, now, engine>>

\* const request = await this.postgres.getRequest(requestId)
RetryDeadGet ==
  /\ op.pc = "retryDeadGet"
  /\ \E id \in op.ids :
       op' = IF HasRow(id)
             THEN [op EXCEPT !.pc = "retryDeadEnqueue",
                             !.prio = rows[id].priority,
                             !.maxR = rows[id].maxRetries]
             ELSE Returned("void")
  /\ UNCHANGED <<durable, index, local, opsLeft, dequeued, now, engine>>

\* if (request) await this.redis.enqueue({...})
RetryDeadEnqueue ==
  /\ op.pc = "retryDeadEnqueue"
  /\ \E id \in op.ids :
       /\ snapshot' = [snapshot EXCEPT
                         ![id] = [present |-> TRUE, maxRetries |-> op.maxR]]
       /\ queue' = [queue EXCEPT ![id] = ScoreBase - op.prio]
       /\ arrival' = inserted(arrival, {id})
  /\ op' = Returned("void")
  /\ UNCHANGED <<durable, scheduled, processing, dead, local, opsLeft,
                 dequeued, now, engine>>

\* ------------------------------------- PostgresStore.cleanupCompleted/Dead
\* DELETE FROM requests WHERE status = ... AND <older than N days>; the rows
\* old enough are the set S. With N >= 1 a row is old enough only long after
\* the task that wrote its status has ended (a task lives for seconds).
\* request_attempts rows go with them (ON DELETE CASCADE).
Cleanup(status, S) ==
  /\ op.pc = "idle"
  /\ opsLeft > 0
  /\ S # {}
  /\ \A i \in S : rows[i].status = status
  /\ \A i \in S, w \in Workers : task[w][i].pc = "idle"
  /\ opsLeft' = opsLeft - 1
  /\ rows' = [i \in Ids |-> IF i \in S THEN AbsentRow ELSE rows[i]]
  /\ attemptLog' = [i \in Ids |-> IF i \in S THEN EmptyBag ELSE attemptLog[i]]
  /\ UNCHANGED <<index, local, op, dequeued, now, engine>>

cleanupCompleted == \E S \in SUBSET Ids : Cleanup("completed", S)
cleanupDead == \E S \in SUBSET Ids : Cleanup("dead", S)

\* ------------------------------------------------------ Worker.processNext
\* processNext calls and processRequest tasks under way, over all workers
Active ==
  Cardinality({w \in Workers : pn[w].pc # "idle"})
  + Cardinality({x \in Workers \X Ids : task[x[1]][x[2]].pc # "idle"})

\* RedisStore.dequeue, first command: ZPOPMIN queue:pending (an empty queue
\* returns null and changes nothing)
Dequeue(w) ==
  /\ w \in running
  /\ pn[w].pc = "idle"
  /\ InQueue # {}
  /\ Active < MaxActive
  /\ dequeued < MaxDequeues
  /\ dequeued' = dequeued + 1
  /\ pn' = [pn EXCEPT ![w] = [pc |-> "popped", id |-> zpopminMember]]
  /\ queue' = [queue EXCEPT ![zpopminMember] = NoScore]
  /\ arrival' = removed(arrival, zpopminMember)
  /\ UNCHANGED <<durable, scheduled, processing, dead, snapshot, inflight,
                 totalActive, activeRequests, task, pr, op, opsLeft, now,
                 engine>>

\* RedisStore.dequeue, second command: ZADD queue:processing now id
DequeueAddProcessing(w) ==
  /\ pn[w].pc = "popped"
  /\ processing' = processing \cup {pn[w].id}
  /\ pn' = [pn EXCEPT ![w].pc = "added"]
  /\ UNCHANGED <<durable, queue, arrival, scheduled, dead, snapshot,
                 inflight, totalActive, activeRequests, task, pr, op,
                 opsLeft, dequeued, now, engine>>

\* RedisStore.dequeue, third command: GET request:{id}; then the rest of
\* processNext: drop the request when its id is already in flight in this
\* worker, else record it and launch processRequest
Launch(w) ==
  /\ pn[w].pc = "added"
  /\ LET id == pn[w].id IN
       IF snapshot[id].present /\ id \notin inflight[w]
       THEN /\ inflight' = [inflight EXCEPT ![w] = @ \cup {id}]
            /\ task' = [task EXCEPT ![w][id] =
                 [IdleTask EXCEPT
                    !.pc = "getRequest",
                    !.maxR = IF snapshot[id].maxRetries = NoMax
                             THEN ConfigMaxRetries
                             ELSE snapshot[id].maxRetries]]
       ELSE UNCHANGED <<inflight, task>>
  /\ pn' = [pn EXCEPT ![w] = IdlePn]
  /\ UNCHANGED <<durable, index, totalActive, activeRequests, pr, op,
                 opsLeft, dequeued, now, engine>>

\* ------------------------------------- RedisStore.promoteScheduledRequests
\* called by the 1 Hz check and by the handler of the retry channel:
\* ZRANGEBYSCORE queue:scheduled -inf now (nothing due: returns [])
PromoteRead(w) ==
  /\ w \in running
  /\ pr[w].pc = "idle"
  /\ dueRequests # {}
  /\ pr' = [pr EXCEPT ![w] = [pc |-> "read", due |-> dueRequests]]
  /\ UNCHANGED <<durable, index, inflight, totalActive, activeRequests,
                 task, pn, op, opsLeft, dequeued, now, engine>>

\* the pipeline: for each id read, ZREM queue:scheduled, ZADD queue:pending 50
PromoteMove(w) ==
  /\ pr[w].pc = "read"
  /\ scheduled' = [i \in Ids |-> IF i \in pr[w].due THEN NoTime ELSE scheduled[i]]
  /\ queue' = [i \in Ids |-> IF i \in pr[w].due THEN PromotedScore ELSE queue[i]]
  /\ arrival' = inserted(arrival, pr[w].due)
  /\ pr' = [pr EXCEPT ![w] = IdlePr]
  /\ UNCHANGED <<durable, processing, dead, snapshot, inflight,
                 totalActive, activeRequests, task, pn, op, opsLeft,
                 dequeued, now, engine>>

\* --------------------------------------------------- Worker.processRequest
SetTask(w, id, t) == task' = [task EXCEPT ![w][id] = t]
AtPc(w, id, pc) == task[w][id].pc = pc

\* entry of handleFailure: willRetry and nextRetryAt are computed before the
\* first await
enterHandleFailure(t, statusCode, err) ==
  LET willRetry == shouldRetry(statusCode, err, t.att, t.maxR) IN
  [t EXCEPT !.pc = "hfUpdate", !.status = statusCode, !.err = err,
            !.will = willRetry,
            !.retryAt = IF willRetry THEN now + RetryDelayTicks ELSE NoTime]

\* an exception inside the try block: control goes to the catch block
enterCatch(t, err) == [t EXCEPT !.pc = "catchLog", !.err = err, !.inCatch = TRUE]

\* storedRequest = await postgres.getRequest(id); currentAttempt = attempts + 1
GetRequest(w, id) ==
  /\ AtPc(w, id, "getRequest")
  /\ SetTask(w, id, [task[w][id] EXCEPT !.pc = "waitSlot",
                                        !.att = rows[id].attempts + 1])
  /\ UNCHANGED <<durable, index, inflight, totalActive, activeRequests,
                 pn, pr, op, opsLeft, dequeued, now, engine>>

\* waitForSlot: canProceed admits (concurrency below the limit; the circuit
\* breaker and the rate limiter, part of the environment here, admit)
MaxConcurrency == 1
PerHostConcurrency == 1
canProceedConcurrency ==
  /\ ~(totalActive >= MaxConcurrency)
  /\ ~(activeRequests >= PerHostConcurrency)
SlotGranted(w, id) ==
  /\ AtPc(w, id, "waitSlot")
  /\ canProceedConcurrency
  /\ SetTask(w, id, [task[w][id] EXCEPT !.pc = "acquire"])
  /\ UNCHANGED <<durable, index, inflight, totalActive, activeRequests,
                 pn, pr, op, opsLeft, dequeued, now, engine>>

\* waitForSlot returns false and the request is made due at once
SlotRefusedDueNow(w, id) ==
  /\ AtPc(w, id, "waitSlot")
  /\ SetTask(w, id, [task[w][id] EXCEPT !.pc = "reschedule",
                                        !.retryAt = now])
  /\ processing' = processing \ {id}
  /\ UNCHANGED <<durable, queue, arrival, scheduled, dead, snapshot,
                 inflight, totalActive, activeRequests, pn, pr, op,
                 opsLeft, dequeued, now, engine>>

\* waitForSlot returns false: scheduleRetry(id, now + 5 s), first command
\* ZREM queue:processing
SlotRefused(w, id) ==
  /\ AtPc(w, id, "waitSlot")
  /\ SetTask(w, id, [task[w][id] EXCEPT !.pc = "reschedule",
                                        !.retryAt = now + SlotRetryTicks])
  /\ processing' = processing \ {id}
  /\ UNCHANGED <<durable, queue, arrival, scheduled, dead, snapshot,
                 inflight, totalActive, activeRequests, pn, pr, op,
                 opsLeft, dequeued, now, engine>>

\* scheduleRetry, second command: ZADD queue:scheduled retryAt id (and PUBLISH)
Reschedule(w, id) ==
  /\ AtPc(w, id, "reschedule")
  /\ scheduled' = [scheduled EXCEPT ![id] = task[w][id].retryAt]
  /\ SetTask(w, id, [task[w][id] EXCEPT !.pc = "return"])
  /\ UNCHANGED <<durable, queue, arrival, processing, dead, snapshot,
                 inflight, totalActive, activeRequests, pn, pr, op,
                 opsLeft, dequeued, now, engine>>

\* the slot-wait timeout path with a release(host) before the return
ReturnReleasing(w, id) ==
  /\ AtPc(w, id, "return")
  /\ SetTask(w, id, IdleTask)
  /\ totalActive' = IF totalActive - 1 > 0 THEN totalActive - 1 ELSE 0
  /\ activeRequests' = IF activeRequests <= 1 THEN 0 ELSE activeRequests - 1
  /\ inflight' = [inflight EXCEPT ![w] = @ \ {id}]
  /\ UNCHANGED <<durable, index, pn, pr, op, opsLeft, dequeued, now, engine>>

\* processRequest returns without having acquired: .finally() of processNext
Return(w, id) ==
  /\ AtPc(w, id, "return")
  /\ SetTask(w, id, IdleTask)
  /\ inflight' = [inflight EXCEPT ![w] = @ \ {id}]
  /\ UNCHANGED <<durable, index, totalActive, activeRequests, pn, pr, op,
                 opsLeft, dequeued, now, engine>>

\* backpressure.acquire(host)
Acquire(w, id) ==
  /\ AtPc(w, id, "acquire")
  /\ totalActive' = totalActive + 1
  /\ activeRequests' = activeRequests + 1
  /\ SetTask(w, id, [task[w][id] EXCEPT !.pc = "setProcessing"])
  /\ UNCHANGED <<durable, index, inflight, pn, pr, op, opsLeft, dequeued,
                 now, engine>>

\* updateRequestStatus(id, 'processing', {attempts: currentAttempt, ...}),
\* then executeRequest is started: the target will answer with statusCode,
\* or (statusCode 0) the transport will fail with err
SetProcessing(w, id, statusCode, err) ==
  /\ AtPc(w, id, "setProcessing")
  /\ rows' = updateRequestStatus(id, "processing",
                                 [attempts |-> task[w][id].att])
  /\ SetTask(w, id, IF statusCode # 0
                    THEN [task[w][id] EXCEPT !.pc = "logAttempt",
                                             !.status = statusCode]
                    ELSE enterCatch(task[w][id], err))
  /\ UNCHANGED <<attemptLog, index, inflight, totalActive, activeRequests,
                 pn, pr, op, opsLeft, dequeued, now, engine>>

\* INSERT INTO request_attempts (request_id REFERENCES requests: without the
\* parent row the insert fails)
logAttempt(id, n) == [attemptLog EXCEPT ![id] = @ (+) SetToBag({n})]

\* try block: logAttempt(id, currentAttempt, {statusCode, ...}), then the
\* branch on the status
LogAttempt(w, id) ==
  /\ AtPc(w, id, "logAttempt")
  /\ LET t == task[w][id] IN
       IF HasRow(id)
       THEN /\ attemptLog' = logAttempt(id, t.att)
            /\ IF t.status >= 200 /\ t.status < 300
               THEN SetTask(w, id, [t EXCEPT !.pc = "hsUpdate"])
               ELSE SetTask(w, id, enterHandleFailure(t, t.status, "http"))
       ELSE /\ UNCHANGED attemptLog
            /\ SetTask(w, id, enterCatch(t, "other"))
  /\ UNCHANGED <<rows, index, inflight, totalActive, activeRequests, pn,
                 pr, op, opsLeft, dequeued, now, engine>>

\* handleSuccess: updateRequestStatus(id, 'completed', ...)
SuccessUpdate(w, id) ==
  /\ AtPc(w, id, "hsUpdate")
  /\ rows' = updateRequestStatus(id, "completed", <<>>)
  /\ SetTask(w, id, [task[w][id] EXCEPT !.pc = "hsMark"])
  /\ UNCHANGED <<attemptLog, index, inflight, totalActive, activeRequests,
                 pn, pr, op, opsLeft, dequeued, now, engine>>

\* handleSuccess: redis.markComplete(id), then events.onComplete(response):
\* the subscribers return (err "none") or one of them throws err
MarkComplete(w, id, err) ==
  /\ AtPc(w, id, "hsMark")
  /\ processing' = processing \ {id}
  /\ SetTask(w, id, IF err = "none"
                    THEN [task[w][id] EXCEPT !.pc = "record"]
                    ELSE enterCatch(task[w][id], err))
  /\ UNCHANGED <<durable, queue, arrival, scheduled, dead, snapshot,
                 inflight, totalActive, activeRequests, pn, pr, op,
                 opsLeft, dequeued, now, engine>>

\* catch block: logAttempt(id, currentAttempt, {error}), then handleFailure
CatchLog(w, id) ==
  /\ AtPc(w, id, "catchLog")
  /\ LET t == task[w][id] IN
       IF HasRow(id)
       THEN /\ attemptLog' = logAttempt(id, t.att)
            /\ SetTask(w, id, enterHandleFailure(t, 0, t.err))
       ELSE /\ UNCHANGED attemptLog
            /\ SetTask(w, id, [t EXCEPT !.pc = "finally"])
  /\ UNCHANGED <<rows, index, inflight, totalActive, activeRequests, pn,
                 pr, op, opsLeft, dequeued, now, engine>>

\* handleFailure: updateRequestStatus(id, 'pending' | 'dead', ...)
FailureUpdate(w, id) ==
  /\ AtPc(w, id, "hfUpdate")
  /\ LET t == task[w][id] IN
       rows' = IF t.will
               THEN updateRequestStatus(id, "pending",
                      [nextRetryAt |-> t.retryAt,
                       error |-> errorMessage(t.status, t.err)])
               ELSE updateRequestStatus(id, "dead",
                      [error |-> errorMessage(t.status, t.err)])
  /\ SetTask(w, id, [task[w][id] EXCEPT !.pc = "hfRemove", !.status = 0,
                                        !.err = "none"])
  /\ UNCHANGED <<attemptLog, index, inflight, totalActive, activeRequests,
                 pn, pr, op, opsLeft, dequeued, now, engine>>

\* scheduleRetry / moveToDead, first command: ZREM queue:processing
FailureRemove(w, id) ==
  /\ AtPc(w, id, "hfRemove")
  /\ processing' = processing \ {id}
  /\ SetTask(w, id, [task[w][id] EXCEPT !.pc = "hfAdd"])
  /\ UNCHANGED <<durable, queue, arrival, scheduled, dead, snapshot,
                 inflight, totalActive, activeRequests, pn, pr, op,
                 opsLeft, dequeued, now, engine>>

\* second command: ZADD queue:scheduled nextRetryAt id, or ZADD queue:dead;
\* then events.onRetry + onError, or onDead + onError: the subscribers return
\* (err "none") or one throws err. Thrown inside the try block, the catch
\* block takes over; thrown inside the catch block, it leaves processRequest
FailureAdd(w, id, err) ==
  /\ AtPc(w, id, "hfAdd")
  /\ LET t == task[w][id] IN
       /\ IF t.will
          THEN /\ scheduled' = [scheduled EXCEPT ![id] = t.retryAt]
               /\ UNCHANGED dead
          ELSE /\ dead' = dead \cup {id}
               /\ UNCHANGED scheduled
       /\ SetTask(w, id, IF err = "none" THEN [t EXCEPT !.pc = "record"]
                         ELSE IF t.inCatch THEN [t EXCEPT !.pc = "finally"]
                         ELSE enterCatch(t, err))
  /\ UNCHANGED <<durable, queue, arrival, processing, snapshot, inflight,
                 totalActive, activeRequests, pn, pr, op, opsLeft,
                 dequeued, now, engine>>

\* backpressure.recordSuccess(host) (end of try) / recordFailure(host) (end
\* of catch): circuit-breaker bookkeeping only
Record(w, id) ==
  /\ AtPc(w, id, "record")
  /\ SetTask(w, id, [task[w][id] EXCEPT !.pc = "finally"])
  /\ UNCHANGED <<durable, index, inflight, totalActive, activeRequests,
                 pn, pr, op, opsLeft, dequeued, now, engine>>

\* finally { backpressure.release(host) }, then .finally() of processNext
release == IF totalActive - 1 > 0 THEN totalActive - 1 ELSE 0
\* activeRequests: delete the host's entry at 1 or below, else count down
releaseHost == IF activeRequests <= 1 THEN 0 ELSE activeRequests - 1
Finally(w, id) ==
  /\ AtPc(w, id, "finally")
  /\ totalActive' = release
  /\ activeRequests' = releaseHost
  /\ inflight' = [inflight EXCEPT ![w] = @ \ {id}]
  /\ SetTask(w, id, IdleTask)
  /\ UNCHANGED <<durable, index, pn, pr, op, opsLeft, dequeued, now,
                 engine>>

\* ------------------------------------------------------------------- Next
EngineStep ==
  \/ \E S \in {T \in SUBSET Admitted : T # {}}, prio \in Priorities,
        maxR \in MaxRetriesInputs, sched \in ScheduledForInputs :
       EnqueueSave(S, prio, maxR, sched)
  \/ EnqueueIndex
  \/ \E id \in Admitted : CancelIndex(id)
  \/ CancelUpdate
  \/ \E id \in Admitted : RetryDeadUpdate(id)
  \/ RetryDeadGet
  \/ RetryDeadEnqueue
  \/ cleanupCompleted
  \/ cleanupDead

WorkerStep ==
  \E w \in Workers :
    \/ Dequeue(w)
    \/ DequeueAddProcessing(w)
    \/ Launch(w)
    \/ PromoteRead(w)
    \/ PromoteMove(w)

TaskStep ==
  \E w \in Workers, id \in Ids :
    \/ GetRequest(w, id)
    \/ SlotGranted(w, id)
    \/ SlotRefused(w, id)
    \/ Reschedule(w, id)
    \/ Return(w, id)
    \/ Acquire(w, id)
    \/ \E s \in Statuses : SetProcessing(w, id, s, "none")
    \/ \E e \in TransportErrors : SetProcessing(w, id, 0, e)
    \/ LogAttempt(w, id)
    \/ SuccessUpdate(w, id)
    \/ \E e \in {"none"} \cup HandlerErrors : MarkComplete(w, id, e)
    \/ CatchLog(w, id)
    \/ FailureUpdate(w, id)
    \/ FailureRemove(w, id)
    \/ \E e \in {"none"} \cup HandlerErrors : FailureAdd(w, id, e)
    \/ Record(w, id)
    \/ Finally(w, id)

Next == Tick \/ EngineStep \/ WorkerStep \/ TaskStep

Spec == Init /\ [][Next]_vars

\* ------------------------------------------------ the queue under load
\* Several requests of several priorities, enqueued one call at a time;
\* the workers dequeue, and a request that gets no slot is re-scheduled and
\* promoted back.
QueuePriorities == {10, 50, 90}

QueueEnqueue ==
  \E id \in Ids, prio \in QueuePriorities :
    EnqueueSave({id}, prio, NoMax, NoTime)

QueueTaskStep ==
  \E w \in Workers, id \in Ids :
    \/ GetRequest(w, id)
    \/ SlotRefused(w, id)
    \/ Reschedule(w, id)
    \/ Return(w, id)

NextQ == Tick \/ QueueEnqueue \/ EnqueueIndex \/ WorkerStep \/ QueueTaskStep

SpecQ == Init /\ [][NextQ]_vars

\* --------------------------------------- the concurrency limits under load
\* Several requests for one host whose target answers 200; every task runs
\* from waitForSlot to release.
SlotEnqueue ==
  \E id \in Ids : EnqueueSave({id}, DefaultPriority, NoMax, NoTime)

SlotTaskStep ==
  \E w \in Workers, id \in Ids :
    \/ GetRequest(w, id)
    \/ SlotGranted(w, id)
    \/ SlotRefused(w, id)
    \/ Reschedule(w, id)
    \/ Return(w, id)
    \/ Acquire(w, id)
    \/ SetProcessing(w, id, 200, "none")
    \/ LogAttempt(w, id)
    \/ SuccessUpdate(w, id)
    \/ MarkComplete(w, id, "none")
    \/ Record(w, id)
    \/ Finally(w, id)

NextB == Tick \/ SlotEnqueue \/ EnqueueIndex \/ WorkerStep \/ SlotTaskStep

SpecB == Init /\ [][NextB]_vars

\* ------------------------------------------------- QueueManager.shutdown
\* if (this.shuttingDown) return; this.shuttingDown = true; then every
\* worker's stop() runs up to its first await: running = false
\* (without the early return of a repeated call)
ShutdownBeginAgain ==
  /\ shutdownCall.calls < MaxShutdowns
  /\ shuttingDown' = TRUE
  /\ running' = {}
  /\ shutdownCall' = [calls |-> shutdownCall.calls + 1,
                      pc |-> "stopping", ret |-> "none"]
  /\ UNCHANGED <<durable, index, local, op, opsLeft, dequeued, now,
                 connected, pauseCall, probe,
                 throttle>>
ShutdownBegin ==
  /\ shutdownCall.calls < MaxShutdowns
  /\ IF shuttingDown
     THEN /\ shutdownCall' = [shutdownCall EXCEPT !.calls = @ + 1,
                                                  !.ret = "void"]
          /\ UNCHANGED <<running, shuttingDown>>
     ELSE /\ shuttingDown' = TRUE
          /\ running' = {}
          /\ shutdownCall' = [calls |-> shutdownCall.calls + 1,
                              pc |-> "stopping", ret |-> "none"]
  /\ UNCHANGED <<durable, index, local, op, opsLeft, dequeued, now,
                 connected, pauseCall, probe,
                 throttle>>

\* the workers have stopped (no task in flight any more, or 30 s have
\* passed): await this.redis.disconnect()
ShutdownDisconnectRedis ==
  /\ shutdownCall.pc = "stopping"
  /\ connected' = connected \ {"redis"}
  /\ shutdownCall' = [shutdownCall EXCEPT !.pc = "redisClosed"]
  /\ UNCHANGED <<durable, index, local, op, opsLeft, dequeued, now,
                 running, shuttingDown, pauseCall, probe,
                 throttle>>

\* await this.postgres.disconnect(); shutdown returns
ShutdownDisconnectPostgres ==
  /\ shutdownCall.pc = "redisClosed"
  /\ connected' = connected \ {"postgres"}
  /\ shutdownCall' = [shutdownCall EXCEPT !.pc = "idle", !.ret = "void"]
  /\ UNCHANGED <<durable, index, local, op, opsLeft, dequeued, now,
                 running, shuttingDown, pauseCall, probe,
                 throttle>>

\* a command of an API call on a store that has been closed is rejected:
\* the call throws
StoreClosed ==
  /\ \/ op.pc = "enqueueIndex" /\ "redis" \notin connected
     \/ op.pc = "cancelUpdate" /\ "postgres" \notin connected
  /\ op' = Returned("ConnectionClosed")
  /\ UNCHANGED <<durable, index, local, opsLeft, dequeued, now, engine>>

\* cancel called when the Index Store has been closed
CancelClosed ==
  /\ op.pc = "idle"
  /\ opsLeft > 0
  /\ "redis" \notin connected
  /\ opsLeft' = opsLeft - 1
  /\ op' = Returned("ConnectionClosed")
  /\ UNCHANGED <<durable, index, local, dequeued, now, engine>>

\* ------------------------------------------------ the API under shutdown
\* enqueue and enqueueMany of any ids, cancel of any id, shutdown; the
\* workers dequeue, and a request that gets no slot is re-scheduled and
\* promoted back. A command is issued only on an open store.
ApiEnqueue ==
  \E S \in {T \in SUBSET Ids : T # {}} :
    EnqueueSave(S, DefaultPriority, NoMax, NoTime)

ApiStep ==
  \/ ApiEnqueue
  \/ "redis" \in connected /\ EnqueueIndex
  \/ "redis" \in connected /\ \E id \in Ids : CancelIndex(id)
  \/ "postgres" \in connected /\ CancelUpdate
  \/ StoreClosed
  \/ CancelClosed
  \/ ShutdownBegin
  \/ ShutdownDisconnectRedis
  \/ ShutdownDisconnectPostgres

ApiTaskStep ==
  \E w \in Workers, id \in Ids :
    \/ "postgres" \in connected /\ GetRequest(w, id)
    \/ "redis" \in connected /\ SlotRefused(w, id)
    \/ "redis" \in connected /\ Reschedule(w, id)
    \/ Return(w, id)

InitA == InitOps(MaxCalls)

NextA ==
  \/ Tick
  \/ ApiStep
  \/ "redis" \in connected /\ WorkerStep
  \/ ApiTaskStep

SpecA == InitA /\ [][NextA]_vars

\* ------------------------------------------- QueueManager.pause / resume
\* pause: for (const worker of this.workers) await worker.stop(). The call
\* of stop() sets running = false before its first await.
PauseBegin ==
  /\ pauseCall.pc = "idle"
  /\ pauseCall.calls < MaxPauses
  /\ running' = running \ {1}
  /\ pauseCall' = [calls |-> pauseCall.calls + 1, pc |-> "stopping",
                   w |-> 1, paused |-> FALSE]
  /\ UNCHANGED <<durable, index, local, op, opsLeft, dequeued, now,
                 shuttingDown, connected, shutdownCall, probe,
                 throttle>>

\* stop() of worker pauseCall.w returns: unsubscribe is done and the
\* worker's in-flight set is empty (or 30 s have passed); the loop goes on
\* to the next worker, or pause returns
PauseWorkerStopped ==
  /\ pauseCall.pc = "stopping"
  /\ IF pauseCall.w < NumWorkers
     THEN /\ running' = running \ {pauseCall.w + 1}
          /\ pauseCall' = [pauseCall EXCEPT !.w = @ + 1]
     ELSE /\ UNCHANGED running
          /\ pauseCall' = [pauseCall EXCEPT !.pc = "idle", !.w = 0,
                                            !.paused = TRUE]
  /\ UNCHANGED <<durable, index, local, op, opsLeft, dequeued, now,
                 shuttingDown, connected, shutdownCall, probe,
                 throttle>>

\* resume: for (const worker of this.workers) await worker.start(). The
\* call of start() sets running = true before its first await.
ResumeBegin ==
  /\ pauseCall.pc = "idle"
  /\ pauseCall.calls < MaxPauses
  /\ running' = running \cup {1}
  /\ pauseCall' = [calls |-> pauseCall.calls + 1, pc |-> "starting",
                   w |-> 1, paused |-> FALSE]
  /\ UNCHANGED <<durable, index, local, op, opsLeft, dequeued, now,
                 shuttingDown, connected, shutdownCall, probe,
                 throttle>>

\* start() of worker pauseCall.w returns; the loop goes on to the next
\* worker, or resume returns
ResumeWorkerStarted ==
  /\ pauseCall.pc = "starting"
  /\ IF pauseCall.w < NumWorkers
     THEN /\ running' = running \cup {pauseCall.w + 1}
          /\ pauseCall' = [pauseCall EXCEPT !.w = @ + 1]
     ELSE /\ UNCHANGED running
          /\ pauseCall' = [pauseCall EXCEPT !.pc = "idle", !.w = 0]
  /\ UNCHANGED <<durable, index, local, op, opsLeft, dequeued, now,
                 shuttingDown, connected, shutdownCall, probe,
                 throttle>>

\* --------------------------------------------- the workers under pause
\* Requests whose target answers 200 are enqueued and executed while the
\* operator pauses and resumes the engine.
PauseStep ==
  \/ PauseBegin
  \/ PauseWorkerStopped
  \/ ResumeBegin
  \/ ResumeWorkerStarted

NextP ==
  \/ Tick
  \/ SlotEnqueue
  \/ EnqueueIndex
  \/ PauseStep
  \/ WorkerStep
  \/ SlotTaskStep

SpecP == Init /\ [][NextP]_vars

\* --------------------------------------------------- calculateRetryDelay
Min(a, b) == IF a <= b THEN a ELSE b
Max(a, b) == IF a >= b THEN a ELSE b

\* Math.pow(2, n) for n >= 0
RECURSIVE pow2(_)
pow2(n) == IF n = 0 THEN 1 ELSE 2 * pow2(n - 1)

exponentialBackoff(attempt, baseDelay, maxDelay) ==
  Min(baseDelay * pow2(attempt - 1), maxDelay)

linearBackoff(attempt, baseDelay, maxDelay) ==
  Min(baseDelay * attempt, maxDelay)

\* applyJitter with Math.random() = r / RandSteps:
\* jitter = (random * 2 - 1) * delay * 0.25, and
\* Math.max(0, Math.round(delay + jitter)), Math.round(x) being
\* floor(x + 1/2); delay + jitter = delay * (3 RandSteps + 2 r) / (4 RandSteps)
applyJitter(delay, r) ==
  Max(0, (2 * delay * (3 * RandSteps + 2 * r) + 4 * RandSteps)
           \div (8 * RandSteps))

\* the functions a caller may supply for the strategy custom
CustomFns == {"none", "quadratic"}
customFn(fn, attempt, baseDelay, maxDelay) == baseDelay * attempt * attempt

\* no value: the call has not returned or has thrown
NoDelay == -1
Strategies == {"exponential", "linear", "fixed", "custom"}

\* the delay before the cap
strategyDelay(c) ==
  IF c.strategy = "exponential"
  THEN exponentialBackoff(c.attempt, c.baseDelay, c.maxDelay)
  ELSE IF c.strategy = "linear"
  THEN linearBackoff(c.attempt, c.baseDelay, c.maxDelay)
  ELSE IF c.strategy = "fixed" THEN c.baseDelay
  ELSE customFn(c.customFn, c.attempt, c.baseDelay, c.maxDelay)

\* (return delay in place of return Math.min(delay, config.maxDelay))
calculateRetryDelayUncapped(c) ==
  IF c.strategy = "custom" /\ c.customFn = "none"
  THEN [c EXCEPT !.pc = "thrown"]
  ELSE [c EXCEPT !.pc = "returned",
                 !.out = IF c.jitter THEN applyJitter(strategyDelay(c), c.rand)
                         ELSE strategyDelay(c)]
calculateRetryDelay(c) ==
  IF c.strategy = "custom" /\ c.customFn = "none"
  THEN [c EXCEPT !.pc = "thrown"]
  ELSE [c EXCEPT !.pc = "returned",
                 !.out = Min(IF c.jitter
                             THEN applyJitter(strategyDelay(c), c.rand)
                             ELSE strategyDelay(c),
                             c.maxDelay)]

\* the calls under observation: attempt >= 1, delays in units of 125 ms
DelayInputs == {0, 8, 20}
DelayCalls ==
  [fn : {"calculateRetryDelay"}, pc : {"call"}, attempt : 1..MaxAttempt,
   strategy : Strategies, baseDelay : DelayInputs, maxDelay : DelayInputs,
   jitter : BOOLEAN, rand : 0..(RandSteps - 1), customFn : CustomFns,
   out : {NoDelay}]

CalculateRetryDelay ==
  /\ probe.fn = "calculateRetryDelay"
  /\ probe.pc = "call"
  /\ probe' = calculateRetryDelay(probe)
  /\ UNCHANGED <<durable, index, local, op, opsLeft, dequeued, now,
                 running, shuttingDown, connected, shutdownCall, pauseCall,
                 throttle>>

InitD == \E c \in DelayCalls : InitState(MaxOps, c)

NextD == CalculateRetryDelay

SpecD == InitD /\ [][NextD]_vars

\* ------------------------------------- serializeRequest / deserializeRequest
\* JavaScript values of the fields of a request, and the values of a JSON
\* text: a type tag and the value written as a string
Undefined == [t |-> "undefined", v |-> ""]
Null == [t |-> "null", v |-> ""]
NaN == [t |-> "number", v |-> "NaN"]
Num(n) == [t |-> "number", v |-> ToString(n)]
Str(x) == [t |-> "string", v |-> x]
DateOf(ms) == [t |-> "date", v |-> ToString(ms)]
InvalidDate == [t |-> "date", v |-> "NaN"]
TimeValues == 0..MaxTime

\* Date.prototype.toISOString of the time value ms (below 10 ms)
toISOString(ms) == "1970-01-01T00:00:00.00" \o ToString(ms) \o "Z"
\* new Date(text): the time value whose ISO form the text is, else an
\* invalid date
newDate(text) ==
  IF \E ms \in TimeValues : toISOString(ms) = text
  THEN DateOf(CHOOSE ms \in TimeValues : toISOString(ms) = text)
  ELSE InvalidDate
\* the time value of a date
timeOf(d) == CHOOSE ms \in TimeValues : DateOf(ms) = d

\* JSON.stringify of a field value: a date is written by its toJSON
\* (toISOString), NaN as null, an undefined member is left out
stringify(x) ==
  IF x.t = "date" THEN Str(toISOString(timeOf(x)))
  ELSE IF x = NaN THEN Null
  ELSE x
\* JSON.parse of a member (a member left out reads as undefined)
parse(x) == x

\* JSON.stringify({...request, createdAt: request.createdAt.toISOString(),
\* scheduledFor: request.scheduledFor?.toISOString()})
serializeRequest(r) ==
  [id |-> stringify(r.id),
   priority |-> stringify(r.priority),
   body |-> stringify(r.body),
   createdAt |-> stringify(Str(toISOString(timeOf(r.createdAt)))),
   scheduledFor |-> IF r.scheduledFor = Undefined THEN Undefined
                    ELSE stringify(Str(toISOString(timeOf(r.scheduledFor))))]

\* {...parsed, createdAt: new Date(parsed.createdAt), scheduledFor:
\* parsed.scheduledFor ? new Date(parsed.scheduledFor) : undefined}
deserializeRequest(data) ==
  [id |-> parse(data.id),
   priority |-> parse(data.priority),
   body |-> parse(data.body),
   createdAt |-> newDate(parse(data.createdAt).v),
   scheduledFor |-> IF parse(data.scheduledFor) \in {Undefined, Null, Str("")}
                    THEN Undefined
                    ELSE newDate(parse(data.scheduledFor).v)]

\* the valid requests under observation (QueueRequestSchema: body is
\* z.unknown(), scheduledFor z.date().optional())
Bodies == {Undefined, Num(1), Str("a"), Str(toISOString(0)), NaN, DateOf(0)}
Requests ==
  [id : {Str("id1")}, priority : {Num(0), Num(DefaultPriority)},
   body : Bodies, createdAt : {DateOf(ms) : ms \in TimeValues},
   scheduledFor : {Undefined} \cup {DateOf(ms) : ms \in TimeValues}]
RoundTrips ==
  [fn : {"roundTrip"}, pc : {"call"}, r : Requests, data : {Undefined},
   out : {Undefined}]

SerializeRequest ==
  /\ probe.fn = "roundTrip"
  /\ probe.pc = "call"
  /\ probe' = [probe EXCEPT !.pc = "serialized",
                            !.data = serializeRequest(probe.r)]
  /\ UNCHANGED <<durable, index, local, op, opsLeft, dequeued, now,
                 running, shuttingDown, connected, shutdownCall, pauseCall,
                 throttle>>

DeserializeRequest ==
  /\ probe.fn = "roundTrip"
  /\ probe.pc = "serialized"
  /\ probe' = [probe EXCEPT !.pc = "returned",
                            !.out = deserializeRequest(probe.data)]
  /\ UNCHANGED <<durable, index, local, op, opsLeft, dequeued, now,
                 running, shuttingDown, connected, shutdownCall, pauseCall,
                 throttle>>

InitR == \E c \in RoundTrips : InitState(MaxOps, c)

NextR == SerializeRequest \/ DeserializeRequest

SpecR == InitR /\ [][NextR]_vars

\* ------------------------------------------ a store that fails in a task
\* errors of a store operation: a message without "timeout" and no
\* network error code (a failed query, a connection that was terminated)
StoreErrors == {"storage"}

\* updateRequestStatus(id, 'processing', ...) throws err: the row is not
\* written and control goes to the catch block
SetProcessingFails(w, id, err) ==
  /\ AtPc(w, id, "setProcessing")
  /\ SetTask(w, id, enterCatch(task[w][id], err))
  /\ UNCHANGED <<durable, index, inflight, totalActive, activeRequests,
                 pn, pr, op, opsLeft, dequeued, now, engine>>

\* Requests are enqueued and executed; the durable transition to processing
\* fails or succeeds, and the target answers 200; the operations of the
\* catch block find the store working again.
FailingTaskStep ==
  \E w \in Workers, id \in Ids :
    \/ GetRequest(w, id)
    \/ SlotGranted(w, id)
    \/ Acquire(w, id)
    \/ \E e \in StoreErrors : SetProcessingFails(w, id, e)
    \/ SetProcessing(w, id, 200, "none")
    \/ LogAttempt(w, id)
    \/ SuccessUpdate(w, id)
    \/ MarkComplete(w, id, "none")
    \/ CatchLog(w, id)
    \/ FailureUpdate(w, id)
    \/ FailureRemove(w, id)
    \/ FailureAdd(w, id, "none")
    \/ Record(w, id)
    \/ Finally(w, id)

\* processNext alone: no request is scheduled here, so nothing is promoted
DequeueStep ==
  \E w \in Workers :
    \/ Dequeue(w)
    \/ DequeueAddProcessing(w)
    \/ Launch(w)

NextF == Tick \/ SlotEnqueue \/ EnqueueIndex \/ DequeueStep \/ FailingTaskStep

SpecF == Init /\ [][NextF]_vars

\* ------------------------------------------------------- the rate limiter
\* Tokens are counted in thousandths, so that the refill elapsed / 1000 *
\* rate is exact: elapsed ms at rate tokens/s add elapsed * rate thousandths.
Milli == 1000
ceilDiv(a, b) == (a + b - 1) \div b

\* the Lua script of checkRateLimit on bucket b (atomic in Redis), called
\* at time t with rate and burst; it returns {1, 0} or {0, wait_time}, and
\* Redis converts the Lua number wait_time to an integer reply by dropping
\* its fraction
refilled(b, t, rate, burst) ==
  LET tokens == IF b.tokens = NoTokens THEN burst * Milli ELSE b.tokens
      last == IF b.lastUpdate = NoTime THEN t ELSE b.lastUpdate
  IN Min(burst * Milli, tokens + (t - last) * rate)
scriptAllows(b, t, rate, burst) == refilled(b, t, rate, burst) >= Milli
scriptBucket(b, t, rate, burst) ==
  IF scriptAllows(b, t, rate, burst)
  THEN [tokens |-> refilled(b, t, rate, burst) - Milli, lastUpdate |-> t]
  ELSE b
scriptWait(b, t, rate, burst) ==
  IF scriptAllows(b, t, rate, burst) THEN 0
  ELSE (Milli - refilled(b, t, rate, burst)) \div rate
\* retryAfter: result[1] > 0 ? Math.ceil(result[1]) : undefined
retryAfterOf(wait) == IF wait > 0 THEN wait ELSE NoRetryAfter

\* per-host limits: 10% of the global rate, a fifth of the global burst
hostRate(rate) == ceilDiv(rate, 10)
hostBurst(burst) == ceilDiv(burst, 5)

MaxAcquires == 6
MaxClock == 400
ClockSteps == {100, 300}
Rates == {3, 10}
Bursts == {2, 5}

\* RateLimiter.acquire(host?), first await: checkRateLimit('global', ...)
AcquireGlobal ==
  /\ limiter.pc = "idle"
  /\ limiter.calls < MaxAcquires
  /\ LET ok == scriptAllows(bucket.global, limiter.clock, limiter.rate,
                            limiter.burst)
         wait == scriptWait(bucket.global, limiter.clock, limiter.rate,
                            limiter.burst)
     IN /\ bucket' = [bucket EXCEPT !.global =
                        scriptBucket(@, limiter.clock, limiter.rate,
                                     limiter.burst)]
        /\ limiter' = [limiter EXCEPT
               !.calls = @ + 1,
               !.pre = bucket,
               !.pc = IF ok /\ limiter.host THEN "host" ELSE "idle",
               !.allowed = ok,
               !.retryAfter = retryAfterOf(wait)]
  /\ UNCHANGED <<durable, index, local, op, opsLeft, dequeued, now,
                 running, shuttingDown, connected, shutdownCall, pauseCall,
                 probe, breaker, gate, probes>>

\* second await: checkRateLimit('host:' + host, ...)
AcquireHost ==
  /\ limiter.pc = "host"
  /\ LET r == hostRate(limiter.rate)
         b == hostBurst(limiter.burst)
         ok == scriptAllows(bucket.host, limiter.clock, r, b)
         wait == scriptWait(bucket.host, limiter.clock, r, b)
     IN /\ bucket' = [bucket EXCEPT !.host = scriptBucket(@, limiter.clock, r, b)]
        /\ limiter' = [limiter EXCEPT !.pc = "idle", !.allowed = ok,
                                      !.retryAfter = retryAfterOf(wait)]
  /\ UNCHANGED <<durable, index, local, op, opsLeft, dequeued, now,
                 running, shuttingDown, connected, shutdownCall, pauseCall,
                 probe, breaker, gate, probes>>

\* Date.now() of the caller advances
ClockTick ==
  /\ \E d \in ClockSteps :
       /\ limiter.clock + d <= MaxClock
       /\ limiter' = [limiter EXCEPT !.clock = @ + d]
  /\ UNCHANGED <<durable, index, local, op, opsLeft, dequeued, now,
                 running, shuttingDown, connected, shutdownCall, pauseCall,
                 probe, breaker, gate, probes, bucket>>

\* a RateLimiter with requestsPerSecond and burstSize configured, whose
\* caller passes a host with every call or with none
Limiters ==
  {[NoLimiter EXCEPT !.rate = r, !.burst = b, !.host = h] :
     r \in Rates, b \in Bursts, h \in BOOLEAN}

InitL ==
  /\ InitCore(MaxOps, NoProbe)
  /\ breaker = NoBreaker
  /\ gate = NoGates
  /\ probes = 0
  /\ bucket = NoBuckets
  /\ limiter \in Limiters

NextL == AcquireGlobal \/ AcquireHost \/ ClockTick

SpecL == InitL /\ [][NextL]_vars

\* ---------------------------------------------------- the circuit breaker
\* configuration of the breaker under analysis (CircuitBreakerConfig); one
\* tick of the model clock stands for resetTimeout. The 5-minute TTL of the
\* hash is far beyond the clock of the model: the key does not expire.
FailureThreshold == 2
SuccessThreshold == 1
ResetTimeoutTicks == 1
HalfOpenMaxRequests == 1

\* RedisStore.updateCircuitBreaker: one pipeline, in this order: reset the
\* counters, HINCRBY failures, HINCRBY successes, HSET state state_changed_at
updateCircuitBreaker(b, state, incF, incS, reset) ==
  LET f0 == IF reset THEN 0 ELSE b.failures
      s0 == IF reset THEN 0 ELSE b.successes
  IN [state |-> IF state = "same" THEN b.state ELSE state,
      failures |-> IF incF THEN f0 + 1 ELSE f0,
      successes |-> IF incS THEN s0 + 1 ELSE s0,
      stateChangedAt |-> IF state = "same" THEN b.stateChangedAt ELSE now]

\* history: the half-open period begins when the state becomes half-open
\* and ends when it leaves half-open
probesAfter(b, admitted) ==
  IF b.state # "half-open" THEN 0
  ELSE IF admitted THEN probes + 1 ELSE probes

engineRest == <<running, shuttingDown, connected, shutdownCall, pauseCall,
               probe, bucket, limiter>>
SetGate(w, id, g) == gate' = [gate EXCEPT ![w][id] = g]

\* canProceed: the concurrency checks pass, then isAllowed(host) reads the
\* hash. closed: allowed; open: denied, or (resetTimeout elapsed) the call
\* goes on to the transition; half-open: allowed while successes + failures
\* < halfOpenMaxRequests. An allowed task goes on to the rate limiter (which
\* admits) and to acquire; a denied one stays in waitForSlot.
elapsed(b) == b.stateChangedAt # NoTime /\ now - b.stateChangedAt >= ResetTimeoutTicks
isAllowedNow(b) ==
  CASE b.state = "closed" -> TRUE
    [] b.state = "open" -> FALSE
    [] OTHER -> b.successes + b.failures < HalfOpenMaxRequests
IsAllowed(w, id) ==
  /\ AtPc(w, id, "waitSlot")
  /\ canProceedConcurrency
  /\ IF breaker.state = "open" /\ elapsed(breaker)
     THEN /\ SetTask(w, id, [task[w][id] EXCEPT !.pc = "halfOpen"])
          /\ SetGate(w, id, [gate[w][id] EXCEPT !.seen = breaker])
          /\ UNCHANGED probes
     ELSE /\ SetTask(w, id, [task[w][id] EXCEPT
                 !.pc = IF isAllowedNow(breaker) THEN "acquire" ELSE "waitSlot"])
          /\ SetGate(w, id, [seen |-> NoBreaker,
                             allowed |-> isAllowedNow(breaker),
                             state |-> breaker.state])
          /\ probes' = probesAfter(breaker, isAllowedNow(breaker))
  /\ UNCHANGED <<durable, index, inflight, totalActive, activeRequests,
                 pn, pr, op, opsLeft, dequeued, now, engineRest, breaker>>

\* isAllowed, open and resetTimeout elapsed: updateCircuitBreaker(host,
\* {state: 'half-open', resetCounters: true}); allowed
IsAllowedHalfOpen(w, id) ==
  /\ AtPc(w, id, "halfOpen")
  /\ breaker' = updateCircuitBreaker(breaker, "half-open", FALSE, FALSE, TRUE)
  /\ probes' = IF breaker.state = "half-open" THEN probes + 1 ELSE 1
  /\ SetGate(w, id, [seen |-> NoBreaker, allowed |-> TRUE,
                     state |-> "half-open"])
  /\ SetTask(w, id, [task[w][id] EXCEPT !.pc = "acquire"])
  /\ UNCHANGED <<durable, index, inflight, totalActive, activeRequests,
                 pn, pr, op, opsLeft, dequeued, now, engineRest>>

\* recordSuccess(host) at the end of the try block, recordFailure(host) at
\* the end of the catch block: getCircuitBreakerState. The call ends here
\* when the state read asks for no update.
recordsFailure(t) == t.inCatch
RecordRead(w, id) ==
  /\ AtPc(w, id, "record")
  /\ LET t == task[w][id]
         updates == IF recordsFailure(t)
                    THEN breaker.state \in {"closed", "half-open"}
                    ELSE \/ breaker.state = "half-open"
                         \/ breaker.state = "closed" /\ breaker.failures > 0
     IN /\ SetTask(w, id, [t EXCEPT !.pc = IF updates THEN "recordUpdate"
                                                     ELSE "finally"])
        /\ SetGate(w, id, [gate[w][id] EXCEPT
                             !.seen = IF updates THEN breaker ELSE NoBreaker])
  /\ UNCHANGED <<durable, index, inflight, totalActive, activeRequests,
                 pn, pr, op, opsLeft, dequeued, now, engineRest, breaker,
                 probes>>

\* the first updateCircuitBreaker of the call.
\* recordSuccess: half-open: {incrementSuccesses}; closed with failures:
\* {resetCounters}. recordFailure: closed: {incrementFailures}; half-open:
\* {state: 'open', incrementFailures}. A second update follows when the
\* counter that was read, plus one, reaches its threshold.
RecordUpdate(w, id) ==
  /\ AtPc(w, id, "recordUpdate")
  /\ LET t == task[w][id]
         seen == gate[w][id].seen
         next == IF recordsFailure(t)
                 THEN IF seen.state = "closed"
                      THEN updateCircuitBreaker(breaker, "same", TRUE, FALSE, FALSE)
                      ELSE updateCircuitBreaker(breaker, "open", TRUE, FALSE, FALSE)
                 ELSE IF seen.state = "half-open"
                      THEN updateCircuitBreaker(breaker, "same", FALSE, TRUE, FALSE)
                      ELSE updateCircuitBreaker(breaker, "same", FALSE, FALSE, TRUE)
         more == IF recordsFailure(t)
                 THEN seen.state = "closed"
                      /\ seen.failures + 1 >= FailureThreshold
                 ELSE seen.state = "half-open"
                      /\ seen.successes + 1 >= SuccessThreshold
     IN /\ breaker' = next
        /\ probes' = probesAfter(next, FALSE)
        /\ SetTask(w, id, [t EXCEPT !.pc = IF more THEN "recordState"
                                                  ELSE "finally"])
        /\ SetGate(w, id, [gate[w][id] EXCEPT
                             !.seen = IF more THEN seen ELSE NoBreaker])
  /\ UNCHANGED <<durable, index, inflight, totalActive, activeRequests,
                 pn, pr, op, opsLeft, dequeued, now, engineRest>>

\* the second updateCircuitBreaker of the call: recordFailure: {state:
\* 'open', resetCounters}; recordSuccess: {state: 'closed', resetCounters}
RecordState(w, id) ==
  /\ AtPc(w, id, "recordState")
  /\ LET next == updateCircuitBreaker(breaker,
                   IF recordsFailure(task[w][id]) THEN "open" ELSE "closed",
                   FALSE, FALSE, TRUE)
     IN /\ breaker' = next
        /\ probes' = probesAfter(next, FALSE)
  /\ SetTask(w, id, [task[w][id] EXCEPT !.pc = "finally"])
  /\ SetGate(w, id, [gate[w][id] EXCEPT !.seen = NoBreaker])
  /\ UNCHANGED <<durable, index, inflight, totalActive, activeRequests,
                 pn, pr, op, opsLeft, dequeued, now, engineRest>>

\* BackpressureController.resetCircuitBreaker(host): {state: 'closed',
\* resetCounters}
ResetCircuitBreaker ==
  /\ opsLeft > 0
  /\ opsLeft' = opsLeft - 1
  /\ breaker' = updateCircuitBreaker(breaker, "closed", FALSE, FALSE, TRUE)
  /\ probes' = 0
  /\ UNCHANGED <<durable, index, local, op, dequeued, now, engineRest, gate>>

\* The targets answer 200 or 500 or the transport fails; the breaker gates
\* the tasks and records their outcome.
BreakerStatuses == {200, 500}
BreakerTaskStep ==
  \E w \in Workers, id \in Ids :
    \/ GetRequest(w, id)
    \/ IsAllowed(w, id)
    \/ IsAllowedHalfOpen(w, id)
    \/ Acquire(w, id)
    \/ \E st \in BreakerStatuses : SetProcessing(w, id, st, "none")
    \/ SetProcessing(w, id, 0, "other")
    \/ LogAttempt(w, id)
    \/ SuccessUpdate(w, id)
    \/ MarkComplete(w, id, "none")
    \/ CatchLog(w, id)
    \/ FailureUpdate(w, id)
    \/ FailureRemove(w, id)
    \/ FailureAdd(w, id, "none")
    \/ RecordRead(w, id)
    \/ RecordUpdate(w, id)
    \/ RecordState(w, id)
    \/ Finally(w, id)

\* the hash of the host as earlier runs may have left it: no key, or open
\* since the start of the clock
OpenBreaker == [state |-> "open", failures |-> 0, successes |-> 0,
                stateChangedAt |-> 0]
InitC ==
  /\ InitCore(MaxOps, NoProbe)
  /\ breaker \in {NoBreaker, OpenBreaker}
  /\ gate = NoGates
  /\ probes = 0
  /\ bucket = NoBuckets
  /\ limiter = NoLimiter

NextC ==
  Tick \/ SlotEnqueue \/ EnqueueIndex \/ WorkerStep \/ BreakerTaskStep
    \/ ResetCircuitBreaker

SpecC == InitC /\ [][NextC]_vars

\* ------------------------------------------------ the engine left to run
\* One request, workers that keep running, stores that answer, and targets
\* that always answer (200, 500) or fail in the transport. waitForSlot
\* returns false only after canProceed has denied: the concurrency checks
\* fail, or the last answer of the circuit breaker was a denial.
FairEnqueue ==
  \E id \in Admitted : EnqueueSave({id}, DefaultPriority, NoMax, NoTime)

SlotTimeout(w, id) ==
  /\ ~canProceedConcurrency \/ ~gate[w][id].allowed
  /\ SlotRefused(w, id)

FairWorkerStep(w) ==
  \/ Dequeue(w)
  \/ DequeueAddProcessing(w)
  \/ Launch(w)
  \/ PromoteRead(w)
  \/ PromoteMove(w)

FairTaskStep(w, id) ==
  \/ GetRequest(w, id)
  \/ IsAllowed(w, id)
  \/ IsAllowedHalfOpen(w, id)
  \/ SlotTimeout(w, id)
  \/ Reschedule(w, id)
  \/ Return(w, id)
  \/ Acquire(w, id)
  \/ \E st \in BreakerStatuses : SetProcessing(w, id, st, "none")
  \/ SetProcessing(w, id, 0, "other")
  \/ LogAttempt(w, id)
  \/ SuccessUpdate(w, id)
  \/ MarkComplete(w, id, "none")
  \/ CatchLog(w, id)
  \/ FailureUpdate(w, id)
  \/ FailureRemove(w, id)
  \/ FailureAdd(w, id, "none")
  \/ RecordRead(w, id)
  \/ RecordUpdate(w, id)
  \/ RecordState(w, id)
  \/ Finally(w, id)

NextV ==
  \/ Tick
  \/ FairEnqueue
  \/ EnqueueIndex
  \/ \E w \in Workers : FairWorkerStep(w)
  \/ \E w \in Workers, id \in Ids : FairTaskStep(w, id)

\* every await returns, every worker and every task goes on, the clock and
\* the 1 Hz promotion check go on
Fairness ==
  /\ WF_vars(Tick)
  /\ WF_vars(EnqueueIndex)
  /\ \A w \in Workers : WF_vars(FairWorkerStep(w))
  /\ \A w \in Workers, id \in Ids : WF_vars(FairTaskStep(w, id))

SpecV == InitC /\ [][NextV]_vars /\ Fairness

\* ------------------------------------------------------------ vocabulary
Terminal == {"completed", "dead", "cancelled"}

\* the number of Index Store sets (priority, scheduled, processing, dead)
\* that hold the id
SetsHolding(id) ==
  (IF queue[id] # NoScore THEN 1 ELSE 0)
  + (IF scheduled[id] # NoTime THEN 1 ELSE 0)
  + (IF id \in processing THEN 1 ELSE 0)
  + (IF id \in dead THEN 1 ELSE 0)

\* no API call, no processNext, no promotion and no processRequest under way
Quiescent ==
  /\ op.pc = "idle"
  /\ \A w \in Workers : pn[w].pc = "idle" /\ pr[w].pc = "idle"
  /\ \A w \in Workers, id \in Ids : task[w][id].pc = "idle"

\* request.maxRetries ?? retryConfig.maxRetries, as the worker reads it
EffectiveMaxRetries(id) ==
  IF snapshot[id].maxRetries = NoMax THEN ConfigMaxRetries
  ELSE snapshot[id].maxRetries

\* tasks of all workers that hold the id
TasksOn(id) == {w \in Workers : task[w][id].pc # "idle"}

\* ------------------------------------------------------------------ claims
\* C1: in every reachable state, also between the steps of the Index Store
\* operations, a request id is in at most one of the sets priority,
\* scheduled, processing and dead.
C1_AtMostOneIndexSet == \A id \in Ids : SetsHolding(id) <= 1

\* C2: in every quiescent state each admitted request is in exactly the
\* place its durable status names: pending or scheduled in priority or
\* scheduled (one of them), dead in the dead set only, completed or
\* cancelled in no set; and the processing set is empty.
C2_QuiescentPlacement ==
  Quiescent =>
    /\ processing = {}
    /\ \A id \in Ids :
         HasRow(id) =>
           \/ /\ rows[id].status \in {"pending", "scheduled"}
              /\ SetsHolding(id) = 1
              /\ queue[id] # NoScore \/ scheduled[id] # NoTime
           \/ /\ rows[id].status = "dead"
              /\ SetsHolding(id) = 1
              /\ id \in dead
           \/ /\ rows[id].status \in {"completed", "cancelled"}
              /\ SetsHolding(id) = 0

\* C3: every id held by the priority, scheduled, processing or dead set has
\* a row in the requests table.
C3_IndexedHasRow == \A id \in Ids : SetsHolding(id) > 0 => HasRow(id)

\* C4: once the durable status of a request is completed, dead or cancelled,
\* no step changes it, except retryDeadRequest called on a dead request
\* (dead -> pending).
C4_TerminalIsSink ==
  [][\A id \in Ids :
       (rows[id].status \in Terminal /\ rows'[id].status # "none") =>
          \/ rows'[id].status = rows[id].status
          \/ /\ rows[id].status = "dead"
             /\ op.pc = "idle" /\ op'.pc = "retryDeadGet" /\ op'.ids = {id}]_vars

\* C5: at no time do two processRequest tasks, of one worker or of two,
\* hold the same request id.
C5_OneTaskPerRequest == \A id \in Ids : Cardinality(TasksOn(id)) <= 1

\* C6: for every request the attempt log holds each attemptNumber once, and
\* the numbers logged are 1, 2, 3, ... up to the number of rows.
C6_AttemptNumbersUnique ==
  \A id \in Ids :
    /\ \A n \in BagToSet(attemptLog[id]) : CopiesIn(n, attemptLog[id]) = 1
    /\ BagToSet(attemptLog[id]) = 1..Cardinality(BagToSet(attemptLog[id]))

\* C7: the durable attempts counter of a request never exceeds its effective
\* maxRetries + 1.
C7_AttemptsBounded ==
  \A id \in Ids :
    HasRow(id) => rows[id].attempts <= EffectiveMaxRetries(id) + 1

\* C8: a request is moved to dead only after maxRetries + 1 attempts have
\* been made. Stated for the requests that the retry limit sends to dead
\* (maxRetries = 2, the target answers 503): no operator call (cancel,
\* retryDeadRequest, cleanup) was made and the last answer was a retryable
\* 503; a status outside retryOn ends the request at once, whatever the
\* limit.
C8_DeadOnlyAfterAllAttempts ==
  \A id \in Ids :
    (/\ opsLeft = MaxOps
     /\ rows[id].status = "dead"
     /\ rows[id].error = errorMessage(503, "none")) =>
      rows[id].attempts >= EffectiveMaxRetries(id) + 1

\* C9: a request in status completed, dead or cancelled has as many rows in
\* the attempt log as its durable attempts counter says.
C9_AttemptsEqualsLogRows ==
  \A id \in Ids :
    rows[id].status \in Terminal =>
      rows[id].attempts = BagCardinality(attemptLog[id])

\* C10: while the durable status of a request is completed, no step appends
\* a row to its attempt log.
C10_NoAttemptAfterCompleted ==
  [][\A id \in Ids :
       (rows[id].status = "completed" /\ rows'[id].status # "none") =>
          attemptLog'[id] = attemptLog[id]]_vars

\* C11: a subscriber (onComplete, onError, onRetry, onDead) that throws does
\* not change what happens to the request: its exception is never handled
\* as a failure of the attempt (no second attempt row from the catch block,
\* no handleFailure for it) and never reaches the durable row.
C11_SubscriberFailureIsolated ==
  \A id \in Ids :
    /\ rows[id].error \notin HandlerErrors
    /\ \A w \in Workers :
         ~(task[w][id].inCatch /\ task[w][id].err \in HandlerErrors)

\* a worker's ZPOPMIN takes effect in this step
Pops(w) == pn[w].pc = "idle" /\ pn'[w].pc = "popped"

\* C12 (as stated): whenever the priority queue holds requests of different
\* priority, dequeue returns one with the highest priority value.
C12_DequeueHighestPriority ==
  [][\A w \in Workers :
       Pops(w) =>
         \A j \in InQueue : rows[pn'[w].id].priority >= rows[j].priority]_vars

\* every member has the score of a freshly enqueued request
AllFresh == \A j \in InQueue : queue[j] = ScoreBase - rows[j].priority

\* C12 (amended): when every member of the priority queue has the score
\* 100 - priority of a freshly enqueued request, dequeue returns one with
\* the highest priority value, independent of the order of enqueue.
C12_FreshDequeueHighestPriority ==
  [][\A w \in Workers :
       (Pops(w) /\ AllFresh) =>
         \A j \in InQueue : rows[pn'[w].id].priority >= rows[j].priority]_vars

\* id 2 (priority 90, enqueued last) has been dequeued before id 1
\* (priority 10, enqueued first)
C12_Witness ==
  /\ \E w \in Workers : pn[w].pc = "popped" /\ pn[w].id = 2
  /\ rows[2].priority = 90 /\ rows[1].priority = 10
  /\ queue[1] = ScoreBase - 10
  /\ dequeued = 1

\* position of a member in the history of insertions into queue:pending
RECURSIVE position(_, _)
position(seq, id) ==
  IF seq = <<>> THEN 0
  ELSE IF Head(seq) = id THEN 1
  ELSE 1 + position(Tail(seq), id)

\* C13: among the members of the priority queue that have the same priority,
\* a dequeue returns the one that was inserted first, whatever the ids are:
\* no member of the same priority was inserted before the one returned.
C13_EqualPriorityFifo ==
  [][\A w \in Workers :
       (Pops(w) /\ AllFresh) =>
         \A j \in InQueue :
           rows[j].priority = rows[pn'[w].id].priority =>
             position(arrival, pn'[w].id) <= position(arrival, j)]_vars

\* a worker has dequeued id or runs processRequest on it
HeldByWorker(id) ==
  \E w \in Workers :
    \/ pn[w].pc # "idle" /\ pn[w].id = id
    \/ task[w][id].pc # "idle"

\* C14: a request enqueued with scheduledFor in the future, once the enqueue
\* has returned and as long as scheduledFor has not come, has the status
\* scheduled, is in the scheduled set and not in the priority queue, and no
\* worker has dequeued it or executes it.
C14_ScheduledWaitsForItsTime ==
  \A id \in Ids :
    (/\ HasRow(id)
     /\ rows[id].scheduledFor # NoTime
     /\ rows[id].scheduledFor > now
     /\ ~(op.pc = "enqueueIndex" /\ id \in op.ids))
    => /\ rows[id].status = "scheduled"
       /\ scheduled[id] # NoTime
       /\ queue[id] = NoScore
       /\ ~HeldByWorker(id)

\* C15: once cancel(id) has returned true (the only writer of the status
\* cancelled), every later step leaves the id in none of the Index Store
\* sets and the status cancelled, and starts no attempt on the id, whatever
\* promoteScheduledRequests and the dequeues of the workers do in between.
C15_CancelIsFinal ==
  [][\A id \in Ids :
       rows[id].status = "cancelled" =>
         /\ rows'[id].status = "cancelled"
         /\ SetsHolding(id)' = 0
         /\ \A w \in Workers :
              ~(AtPc(w, id, "setProcessing")
                /\ task'[w][id].pc # "setProcessing")]_vars

\* C20: in every reachable state, whatever the interleaving of the tasks,
\* the number of requests in execution is at most maxConcurrency and the
\* number in execution for the host is at most perHostConcurrency.
C20_ConcurrencyLimits ==
  /\ totalActive <= MaxConcurrency
  /\ activeRequests <= PerHostConcurrency

\* the UPDATE of retryDeadRequest(id) runs
RetryDeadCalled(id) ==
  op.pc = "idle" /\ op'.pc = "retryDeadGet" /\ id \in op'.ids
\* the last await of retryDeadRequest(id) returns
RetryDeadReturns(id) ==
  op.pc = "retryDeadEnqueue" /\ id \in op.ids /\ op'.pc = "idle"
\* the task of worker w on id starts an execution (an attempt)
Executes(w, id) ==
  AtPc(w, id, "setProcessing") /\ task'[w][id].pc # "setProcessing"

\* C17: retryDeadRequest(id) on a row whose status is dead sets the status
\* to pending with attempts = 0 and error and nextRetryAt cleared; when the
\* call returns the id is in the priority queue; and the execution that
\* follows (the row's attempts still 0) is numbered attempt 1.
C17_RetryDeadStartsAfresh ==
  [][\A id \in Ids :
       /\ (RetryDeadCalled(id) /\ rows[id].status = "dead") =>
            /\ rows'[id].status = "pending"
            /\ rows'[id].attempts = 0
            /\ rows'[id].error = NoError
            /\ rows'[id].nextRetryAt = NoTime
       /\ RetryDeadReturns(id) => queue'[id] # NoScore
       /\ \A w \in Workers :
            (Executes(w, id) /\ rows[id].attempts = 0) =>
              task[w][id].att = 1]_vars

\* cancel(id) has removed the id from a set: the call goes on to the row
CancelFinds(id) ==
  op.pc = "idle" /\ op'.pc = "cancelUpdate" /\ id \in op'.ids
\* cancel(id) returns false
CancelReturnsFalse(id) ==
  /\ op.pc = "idle" /\ opsLeft' < opsLeft
  /\ op'.pc = "idle" /\ op'.ret = "false" /\ id \in op'.ids
\* the call of cancel(id) that went on to the row ends
CancelEnds(id) ==
  op.pc = "cancelUpdate" /\ id \in op.ids /\ op'.pc = "idle"

\* C16: cancel(id) returns true exactly when the id was in the priority
\* queue or in the scheduled set: a call that found the id there returns
\* true (the stores being open), and a call that returns false found it in
\* neither and has changed no row and no set; a request that is already
\* cancelled or completed, or has no row, is found in neither, so that a
\* second cancel of the same id returns false.
C16_CancelReturnsWhetherRemoved ==
  [][\A id \in Ids :
       /\ CancelFinds(id) =>
            /\ queue[id] # NoScore \/ scheduled[id] # NoTime
            /\ rows[id].status \notin {"cancelled", "completed", "none"}
       /\ (CancelEnds(id) /\ "postgres" \in connected) => op'.ret = "true"
       /\ CancelReturnsFalse(id) =>
            /\ queue[id] = NoScore /\ scheduled[id] = NoTime
            /\ UNCHANGED <<rows, attemptLog, queue, scheduled, processing,
                           dead, snapshot>>]_vars

EnqueueAccepted(id) ==
  op.pc = "idle" /\ op'.pc = "enqueueIndex" /\ id \in op'.ids

AddsToProcessing(w) == pn[w].pc = "popped" /\ pn'[w].pc = "added"
\* processNext of worker w starts a processRequest task
StartsTask(w) ==
  \E id \in Ids : task[w][id].pc = "idle" /\ task'[w][id].pc # "idle"

\* C21: from the return of pause() until resume() is called no worker
\* takes a request from the priority queue, none adds one to the
\* processing set and none starts a processRequest task, whatever was in
\* progress when pause was called.
C21_PausedWorkersStartNothing ==
  [][(pauseCall.paused /\ pauseCall'.paused) =>
       \A w \in Workers :
         ~Pops(w) /\ ~AddsToProcessing(w) /\ ~StartsTask(w)]_vars

\* PostgresStore.getStats: SELECT status, COUNT(*) FROM requests GROUP BY
\* status; pending = counts.pending + counts.scheduled
statsPending ==
  Cardinality({id \in Ids : rows[id].status \in {"pending", "scheduled"}})
\* processing = counts.processing
statsProcessing ==
  Cardinality({id \in Ids : rows[id].status = "processing"})

\* C22: in every reachable state the pending figure of getStats is the
\* number of ids in the priority queue plus the number in the scheduled
\* set, and the processing figure is at most the number of ids in the
\* processing set.
C22_StatsMatchIndexStore ==
  /\ statsPending = Cardinality(InQueue)
                    + Cardinality({id \in Ids : scheduled[id] # NoTime})
  /\ statsProcessing <= Cardinality(processing)

\* handleFailure of the task of worker w on id, its decision taken, writes
\* the row
WritesFailure(w, id) ==
  AtPc(w, id, "hfUpdate") /\ task'[w][id].pc = "hfRemove"

\* C23: the decision of shouldRetry that handleFailure acts on is false
\* whenever attempt >= maxRetries, whatever the status code or the error;
\* below that limit a response status is retried exactly when it is in the
\* retryOn list; and a request that is not retried is marked dead, one
\* that is retried pending.
C23_RetryDecision ==
  [][\A w \in Workers, id \in Ids :
       WritesFailure(w, id) =>
         LET t == task[w][id] IN
           /\ t.att >= t.maxR => ~t.will
           /\ (t.att < t.maxR /\ t.status # 0) =>
                (t.will <=> t.status \in RetryOn)
           /\ HasRow(id) =>
                rows'[id].status = IF t.will THEN "pending" ELSE "dead"]_vars

\* a response status outside the retryOn list has sent a request to dead
\* after its first attempt, with retries left
C23_Witness ==
  \E id \in Ids :
    /\ rows[id].status = "dead"
    /\ rows[id].error = errorMessage(404, "none")
    /\ rows[id].attempts = 1
    /\ EffectiveMaxRetries(id) = ConfigMaxRetries

\* the call of calculateRetryDelay under observation has ended
DelayCallEnded == probe.fn = "calculateRetryDelay" /\ probe.pc # "call"
\* its result is what the claim says
DelayAsSpecified ==
  /\ probe.pc = "returned"
  /\ 0 <= probe.out /\ probe.out <= probe.maxDelay
  /\ (~probe.jitter /\ probe.strategy = "exponential") =>
       /\ probe.out = Min(probe.baseDelay * 2^(probe.attempt - 1),
                          probe.maxDelay)
       /\ calculateRetryDelay([probe EXCEPT !.pc = "call",
                                            !.attempt = @ + 1]).out
            >= probe.out
  /\ (~probe.jitter /\ probe.strategy = "linear") =>
       /\ probe.out = Min(probe.baseDelay * probe.attempt, probe.maxDelay)
       /\ calculateRetryDelay([probe EXCEPT !.pc = "call",
                                            !.attempt = @ + 1]).out
            >= probe.out

C25_RoundTrip ==
  (probe.fn = "roundTrip" /\ probe.pc = "returned") => probe.out = probe.r

\* C26: a request whose attempt ended with the failure of a store
\* operation inside processRequest is scheduled for a retry, not moved to
\* dead: its status is not dead and its id is not in the dead set.
C26_StoreFailureIsRetried ==
  \A id \in Ids :
    (\E e \in StoreErrors : rows[id].error = errorMessage(0, e)) =>
      rows[id].status # "dead" /\ id \notin dead

\* the positions of processRequest between acquire(host) and release(host)
AcquiredPcs ==
  {"setProcessing", "logAttempt", "hsUpdate", "hsMark", "catchLog",
   "hfUpdate", "hfRemove", "hfAdd", "record", "finally"}
Executing ==
  {x \in Workers \X Ids : task[x[1]][x[2]].pc \in AcquiredPcs}

Refuses(w, id) ==
  task[w][id].pc = "waitSlot" /\ task'[w][id].pc = "reschedule"
OnRefusedPath(w, id) ==
  task[w][id].pc \in {"reschedule", "return"} /\ task'[w][id] # task[w][id]

Promotes(w) == pr[w].pc = "read" /\ pr'[w].pc = "idle"

\* C29: overlapping or repeated runs of promoteScheduledRequests move each
\* due id from the scheduled set to the priority queue once: a run inserts
\* into the priority queue only ids it takes out of the scheduled set, so
\* never an id that was promoted before and has been dequeued since.
C29_PromotionIdempotent ==
  [][\A w \in Workers :
       Promotes(w) =>
         \A id \in Ids :
           (queue[id] = NoScore /\ queue'[id] # NoScore) =>
             scheduled[id] # NoTime]_vars

\* the retry of request id is scheduled for a time still to come
RetryPending(id) ==
  /\ rows[id].status = "pending"
  /\ rows[id].nextRetryAt # NoTime
  /\ rows[id].nextRetryAt > now

\* C30: a request whose retry is scheduled at nextRetryAt is not moved to
\* the priority queue before that time: a promotion run inserts into the
\* queue no id whose retry time is still to come, and leaves the ids with
\* a score above the current time in the scheduled set.
C30_NoPromotionBeforeRetryTime ==
  [][\A w \in Workers :
       Promotes(w) =>
         \A id \in Ids :
           /\ (RetryPending(id) /\ queue[id] = NoScore) => queue'[id] = NoScore
           /\ (scheduled[id] # NoTime /\ scheduled[id] > now) =>
                scheduled'[id] = scheduled[id]]_vars

\* an acquire call has returned
AcquireReturned == limiter.calls >= 1 /\ limiter.pc = "idle"
BucketInRange(b, burst) ==
  b.tokens = NoTokens \/ (0 <= b.tokens /\ b.tokens <= burst * Milli)

\* C36: from a full bucket and with no time passing, exactly the first
\* burst calls of acquire() without host are allowed and every later one
\* is denied with retryAfter = ceil(1000 / rate); a denied call leaves the
\* bucket unchanged, and the tokens stay within [0, burst].
C36_BurstThenDenied ==
  /\ BucketInRange(bucket.global, limiter.burst)
  /\ (AcquireReturned /\ ~limiter.host) =>
       /\ ~limiter.allowed => bucket.global = limiter.pre.global
       /\ limiter.clock = 0 =>
            IF limiter.calls <= limiter.burst
            THEN limiter.allowed
            ELSE /\ ~limiter.allowed
                 /\ limiter.retryAfter = ceilDiv(Milli, limiter.rate)

\* C37: an acquire(host) call that returns denied has consumed no token:
\* both buckets are as they were when the call was made.
C37_DeniedConsumesNothing ==
  (AcquireReturned /\ limiter.host /\ ~limiter.allowed) =>
    /\ bucket.global = limiter.pre.global
    /\ bucket.host = limiter.pre.host

\* C38: retryDeadRequest(id) on a request whose durable status is not dead
\* changes nothing: the UPDATE leaves the rows as they are, and the call
\* does not put the id of a processing, completed or cancelled request
\* into the priority queue.
C38_RetryDeadOnlyOnDead ==
  [][\A id \in Ids :
       /\ (RetryDeadCalled(id) /\ rows[id].status # "dead") => rows' = rows
       /\ (RetryDeadReturns(id)
             /\ rows[id].status \in {"processing", "completed", "cancelled"}) =>
            queue'[id] = queue[id]]_vars

\* the workers that own id: a processRequest task in flight for it, or a
\* processNext call that has added it to the processing set and is about
\* to launch the task
Owners(id) ==
  {w \in Workers : task[w][id].pc # "idle"
                     \/ (pn[w].pc = "added" /\ pn[w].id = id)}

\* C39: every id in the processing set is owned by an in-flight
\* processRequest task: an id that no worker has a task for is not in the
\* processing set.
C39_ProcessingIsOwned ==
  \A id \in processing : Owners(id) # {}

\* no processRequest task is in flight
NoTaskInFlight == \A w \in Workers, id \in Ids : task[w][id].pc = "idle"
RECURSIVE attemptsOf(_)
attemptsOf(S) ==
  IF S = {} THEN 0
  ELSE LET i == CHOOSE x \in S : TRUE
       IN BagCardinality(attemptLog[i]) + attemptsOf(S \ {i})

\* C31: after failureThreshold consecutive requests to the host that each
\* received an HTTP 500 response through the worker (every request made
\* so far ended with HTTP 500, and nobody has reset the breaker), the
\* circuit breaker of the host is open.
C31_Http500OpensBreaker ==
  ( /\ NoTaskInFlight
    /\ opsLeft = MaxOps
    /\ attemptsOf(Ids) >= FailureThreshold
    /\ \A id \in Ids : HasRow(id) => rows[id].error = errorMessage(500, "none") )
  => breaker.state = "open"

\* C32: a closed breaker has fewer than failureThreshold failures, except
\* while the recordFailure call that counted the last one is about to
\* open it.
C32_ClosedBelowThreshold ==
  (breaker.state = "closed" /\ breaker.failures >= FailureThreshold) =>
    \E w \in Workers, id \in Ids :
      AtPc(w, id, "recordState") /\ recordsFailure(task[w][id])

\* C33: during one half-open period isAllowed admits at most
\* halfOpenMaxRequests requests.
C33_HalfOpenAdmitsFew == probes <= HalfOpenMaxRequests

\* C34: immediately after every state change of the breaker its failures
\* and successes counters are both 0.
C34_CountersResetOnChange ==
  [][breaker'.state # breaker.state =>
       breaker'.failures = 0 /\ breaker'.successes = 0]_vars

\* an isAllowed call of the task of worker w on id reads the hash
Asks(w, id) == AtPc(w, id, "waitSlot") /\ gate'[w][id] # gate[w][id]

\* C35: while the breaker is open and less than resetTimeout has elapsed
\* since stateChangedAt, isAllowed denies and the breaker is left as it is
\* (no step takes it from open to half-open); once resetTimeout has
\* elapsed, the transition to half-open resets the counters and admits.
C35_OpenUntilResetTimeout ==
  [][/\ \A w \in Workers, id \in Ids :
          (Asks(w, id) /\ breaker.state = "open" /\ ~elapsed(breaker)) =>
            /\ ~gate'[w][id].allowed
            /\ breaker' = breaker
     /\ (breaker.state = "open" /\ breaker'.state = "half-open") =>
          /\ elapsed(breaker)
          /\ breaker'.failures = 0 /\ breaker'.successes = 0
          /\ \E w \in Workers, id \in Ids :
               gate'[w][id].allowed /\ task'[w][id].pc = "acquire"]_vars

\* request id has reached a final durable status
Settled(id) == rows[id].status \in {"completed", "dead"}
\* the horizon of the model keeps request id waiting: it is in the queue
\* with no dequeue left, or scheduled for a time the clock does not reach
BeyondHorizon(id) ==
  \/ queue[id] # NoScore /\ dequeued >= MaxDequeues
  \/ scheduled[id] # NoTime /\ scheduled[id] > now /\ now >= MaxTime

\* C40: with the workers running, the stores available, every HTTP call
\* returning and weak fairness on the steps of workers, tasks and promotion,
\* every admitted request eventually reaches durable status completed or
\* dead (or the horizon of the model).
C40_EveryRequestSettles ==
  \A id \in Ids :
    HasRow(id) ~> (Settled(id) \/ BeyondHorizon(id))
====
